---- MODULE Spec2Model ----
(***************************************************************************)
(* The pandas-backend evaluator of ibis (ibis/pandas/core.py): the          *)
(* recursive evaluation of an expression tree against a scope (memo store), *)
(* with the backend hooks pre_execute, compute_time_context,                *)
(* execute_literal, execute_node and post_execute, and the time-context     *)
(* algebra that decides when a scope entry may be reused.                   *)
(*                                                                          *)
(* The recursion of execute_until_in_scope is modelled by an explicit call  *)
(* stack; every hook call is one step.  Hooks are supplied by backends, so  *)
(* their results are chosen nondeterministically: in one evaluation at most *)
(* MaxOverrides hook calls depart from the default implementation           *)
(* (`overrides` counts them), and compute_time_context may miscount at      *)
(* every call.                                                              *)
(*                                                                          *)
(* Spec is one evaluation, from the call of execute to its result or        *)
(* error; FairSpec is Spec run to completion.  Calls is one call of a       *)
(* helper function on its own: compare_timecontext, get_scope,              *)
(* execute_and_reset (after its execute), the CSV backend's                 *)
(* csv_pre_execute_selection, the PySpark backend's filter_by_time_context  *)
(* and the default compute_time_context of the pandas and of the PySpark    *)
(* backend.                                                                 *)
(***************************************************************************)
EXTENDS Integers, Sequences, FiniteSets, TLC

(***************************************************************************)
(* Bounds of the model.                                                     *)
(***************************************************************************)
\* timestamps are 0..MaxTime
MaxTime == 2
\* optional arguments (seed scope entries, params, aggregation context) the
\* caller passes
MaxSeed == 1
\* rows of a table or column result
MaxRows == 2
\* hook calls of one evaluation that depart from the default implementation
MaxOverrides == 1

(***************************************************************************)
(* Python's None: as a time context it is the empty tuple (falsy, like      *)
(* None, in `if timecontext:`), as a value it is a record of its own.       *)
(***************************************************************************)
None == <<>>
NoneVal == [src |-> "None", id |-> 0]

Timestamps == 0 .. MaxTime
\* a bound that is not a pd.Timestamp (a string, say)
NotATimestamp == 0 - 1

\* canonical time contexts: (begin, end) with begin <= end
Ranges == {r \in Timestamps \X Timestamps : r[1] <= r[2]}

\* the range under which the caller's seed scope was cached
CachedRange == <<0, 1>>

(***************************************************************************)
(* The expression.  Node identity is the index; every node has a kind and   *)
(* an ordered list of inputs: sub-expressions ("expr"), scalars ("scalar",  *)
(* computable, not expressions) and lists or strings ("list", not           *)
(* computable).                                                             *)
(*   1  an unbound table                   (ops.TableNode)                  *)
(*   2  a column of table 1                (ops.TableColumn)                *)
(*   3  a literal                          (ops.Literal)                    *)
(*   4  an operation on column 2, table 1, literal 3 and the scalar 7       *)
(***************************************************************************)
Arg(kind, id) == [kind |-> kind, id |-> id]

Ops ==
    << [kind |-> "TableNode",   inputs |-> << Arg("list", 0) >>],
       [kind |-> "TableColumn", inputs |-> << Arg("list", 0), Arg("expr", 1) >>],
       [kind |-> "Literal",     inputs |-> << Arg("scalar", 5) >>],
       [kind |-> "Other",       inputs |-> << Arg("expr", 2), Arg("expr", 1),
                                              Arg("list", 0), Arg("expr", 3),
                                              Arg("scalar", 7) >>] >>

Nodes == DOMAIN Ops

\* is_computable_input
IsComputableInput(arg) == arg.kind \in {"expr", "scalar"}

\* hasattr(arg, 'op')
HasOp(arg) == arg.kind = "expr"

\* computable_args = [arg for arg in op.inputs if is_computable_input(arg)]
ComputableArgs(op) == SelectSeq(Ops[op].inputs, IsComputableInput)

\* an evaluator without the literal path
IsLiteralNever(op) == FALSE

\* isinstance(op, ops.Literal)
IsLiteral(op) == Ops[op].kind = "Literal"

\* a lookup that takes every node for a range-sensitive leaf
IsAnyNode(op) == op \in Nodes

\* isinstance(op, ops.TableColumn) or isinstance(op, ops.TableNode)
IsRangeSensitiveLeaf(op) == Ops[op].kind \in {"TableColumn", "TableNode"}

\* the sub-expression inputs of op
ExprInputs(op) ==
    {Ops[op].inputs[i].id : i \in {j \in DOMAIN Ops[op].inputs : HasOp(Ops[op].inputs[j])}}

RECURSIVE Subtree(_)
\* op and every node below it
Subtree(op) == {op} \cup UNION {Subtree(c) : c \in ExprInputs(op)}

(***************************************************************************)
(* Values.  Every value names where it came from, so a cached value, a      *)
(* value supplied by pre_execute and a freshly computed one are distinct.   *)
(***************************************************************************)
Val(src, id) == [src |-> src, id |-> id]

(***************************************************************************)
(* Time-context algebra.                                                    *)
(***************************************************************************)
\* a comparison that takes every range reaching into the old one for a SUBSET
compare_timecontext_reaching(cur_context, old_context) ==
    IF old_context[2] < cur_context[1] \/ cur_context[2] < old_context[1]
    THEN "NONOVERLAP"
    ELSE "SUBSET"

\* a comparison whose SUBSET needs a strictly wider old range
compare_timecontext_strict(cur_context, old_context) ==
    IF old_context[1] < cur_context[1] /\ old_context[2] > cur_context[2] THEN "SUBSET"
    ELSE IF old_context[1] >= cur_context[1] /\ old_context[2] <= cur_context[2]
    THEN "SUPERSET"
    ELSE IF old_context[2] < cur_context[1] \/ cur_context[2] < old_context[1]
    THEN "NONOVERLAP"
    ELSE "OVERLAP"

\* a comparison that tests SUPERSET before SUBSET
compare_timecontext_superset_first(cur_context, old_context) ==
    IF old_context[1] >= cur_context[1] /\ old_context[2] <= cur_context[2]
    THEN "SUPERSET"
    ELSE IF old_context[1] <= cur_context[1] /\ old_context[2] >= cur_context[2]
    THEN "SUBSET"
    ELSE IF old_context[2] < cur_context[1] \/ cur_context[2] < old_context[1]
    THEN "NONOVERLAP"
    ELSE "OVERLAP"

\* a comparison for which ranges that only touch do not overlap
compare_timecontext_touching(cur_context, old_context) ==
    IF old_context[1] <= cur_context[1] /\ old_context[2] >= cur_context[2] THEN "SUBSET"
    ELSE IF old_context[1] >= cur_context[1] /\ old_context[2] <= cur_context[2]
    THEN "SUPERSET"
    ELSE IF old_context[2] <= cur_context[1] \/ cur_context[2] <= old_context[1]
    THEN "NONOVERLAP"
    ELSE "OVERLAP"

\* compare_timecontext(cur_context, old_context)
compare_timecontext(cur_context, old_context) ==
    LET begin == cur_context[1]
        end == cur_context[2]
        old_begin == old_context[1]
        old_end == old_context[2]
    IN  IF old_begin <= begin /\ old_end >= end THEN "SUBSET"
        ELSE IF old_begin >= begin /\ old_end <= end THEN "SUPERSET"
        ELSE IF old_end < begin \/ end < old_begin THEN "NONOVERLAP"
        ELSE "OVERLAP"

\* a canonicalize_context that does not compare begin and end
canonicalize_raises_unordered(timecontext) ==
    \/ Len(timecontext) # 2
    \/ timecontext[1] \notin Timestamps
    \/ timecontext[2] \notin Timestamps

\* canonicalize_context raises IbisError
canonicalize_raises(timecontext) ==
    \/ Len(timecontext) # 2
    \/ timecontext[1] \notin Timestamps
    \/ timecontext[2] \notin Timestamps
    \/ timecontext[1] > timecontext[2]

\* canonicalize_context returns (begin, end)
canonicalize_context(timecontext) == <<timecontext[1], timecontext[2]>>

(***************************************************************************)
(* Scope.                                                                   *)
(***************************************************************************)
EmptyScope == [k \in {} |-> NoneVal]

\* scope_item(op, result, timecontext)
scope_item(op, result, timecontext) ==
    [k \in {op} |-> [value |-> result, timecontext |-> timecontext]]

\* a merge in which the earlier mapping wins
merge_left_biased(a, b) ==
    [k \in DOMAIN a \cup DOMAIN b |-> IF k \in DOMAIN a THEN a[k] ELSE b[k]]

\* toolz.merge(a, b): the later mapping wins
merge(a, b) ==
    [k \in DOMAIN a \cup DOMAIN b |-> IF k \in DOMAIN b THEN b[k] ELSE a[k]]

RECURSIVE merge_all(_, _)
\* toolz.merge(base, *scopes)
merge_all(base, scopes) ==
    IF scopes = <<>> THEN base
    ELSE merge_all(merge(base, Head(scopes)), Tail(scopes))

\* get_scope fails: unpacking the time context None of a cached leaf
get_scope_raises(scope, op, timecontext) ==
    /\ op \in DOMAIN scope
    /\ timecontext # None
    /\ IsRangeSensitiveLeaf(op)
    /\ scope[op].timecontext = None

\* a lookup that honours an entry whose range lies within the requested one
get_scope_superset(scope, op, timecontext) ==
    IF op \notin DOMAIN scope THEN NoneVal
    ELSE IF timecontext = None THEN scope[op].value
    ELSE IF IsRangeSensitiveLeaf(op)
         THEN IF compare_timecontext(timecontext, scope[op].timecontext) = "SUPERSET"
              THEN scope[op].value
              ELSE NoneVal
         ELSE NoneVal

\* a lookup that, with no range requested, honours only entries stored
\* without a range
get_scope_unranged_only(scope, op, timecontext) ==
    IF op \notin DOMAIN scope THEN NoneVal
    ELSE IF timecontext = None
         THEN IF scope[op].timecontext = None THEN scope[op].value ELSE NoneVal
    ELSE IF IsRangeSensitiveLeaf(op)
         THEN IF compare_timecontext(timecontext, scope[op].timecontext) = "SUBSET"
              THEN scope[op].value
              ELSE NoneVal
         ELSE NoneVal

\* get_scope(scope, op, timecontext)
get_scope(scope, op, timecontext) ==
    IF op \notin DOMAIN scope THEN NoneVal
    ELSE IF timecontext = None THEN scope[op].value
    ELSE IF IsRangeSensitiveLeaf(op)
         THEN IF compare_timecontext(timecontext, scope[op].timecontext) = "SUBSET"
              THEN scope[op].value
              ELSE NoneVal
         ELSE NoneVal

(***************************************************************************)
(* Backend hooks.  Each operator gives the results a registered            *)
(* implementation may return; the first one listed is the default.         *)
(***************************************************************************)
\* [timecontext] * n
Repeat(timecontext, n) == [i \in 1 .. n |-> timecontext]

\* compute_time_context_default(node, timecontext)
compute_time_context_default(op, timecontext) ==
    Repeat(timecontext, Len(ComputableArgs(op)))

\* the range a trailing-window operation asks of an input: one step further
\* back than its own
AdjustedRanges(timecontext) ==
    {r \in Ranges : r = <<timecontext[1] - 1, timecontext[2]>>}

\* results of a compute_time_context implementation that adjusts the range of
\* one sub-expression input
AdjustedTimecontexts(op, timecontext) ==
    LET args == ComputableArgs(op)
    IN  {[compute_time_context_default(op, timecontext) EXCEPT ![i] = r] :
            i \in {j \in DOMAIN args : HasOp(args[j])},
            r \in AdjustedRanges(timecontext)}

\* results of a compute_time_context implementation that returns one range
\* too many or one too few
MiscountedTimecontexts(op, timecontext) ==
    LET n == Len(ComputableArgs(op))
    IN  {Repeat(timecontext, n + 1)} \cup
        (IF n > 0 THEN {Repeat(timecontext, n - 1)} ELSE {})

\* the value a pre_execute implementation supplies for a node
PreVal(op) == Val("pre_execute", op)

\* pre_execute that loads the tables of op which are not in scope yet
\* (as csv_pre_execute_selection does)
PreloadTables(op, scope, timecontext) ==
    LET tables == {t \in ExprInputs(op) : Ops[t].kind = "TableNode" /\ t \notin DOMAIN scope}
    IN  [t \in tables |-> [value |-> PreVal(t), timecontext |-> timecontext]]

\* results of the registered pre_execute implementations other than the default
PreExecuteOverrides(op, scope, timecontext) ==
    {scope_item(op, PreVal(op), timecontext), PreloadTables(op, scope, timecontext)}
        \ {EmptyScope}

(***************************************************************************)
(* State.                                                                   *)
(***************************************************************************)
VARIABLES
    status,        \* "idle", "execute_with_scope", "running", "done", "error"
    expr,          \* the node the top-level execute is called on
    params,        \* execute's params: node -> raw value
    seed_scope,    \* execute's scope argument
    scope,         \* execute_with_scope's scope: seed scope merged with the params
    timecontext,   \* the canonical top-level time context
    aggcontext,    \* the aggregation context of the evaluation
    stack,         \* the active calls of execute_until_in_scope, innermost last
    log,           \* every call, hook call and return so far, in order
    overrides,     \* hook calls so far that were not the default implementation
    result,        \* what execute returned
    error,         \* the exception execute raised
    raw_timecontext,  \* execute's timecontext argument, as the caller passed it
    raw_aggcontext,   \* execute's aggcontext argument, as the caller passed it
    call           \* a helper function called on its own: name, arguments, result

vars == <<status, expr, params, seed_scope, scope, timecontext, aggcontext,
          stack, log, overrides, result, error, raw_timecontext,
          raw_aggcontext, call>>

\* no helper is called on its own during an evaluation
NoCall == [fn |-> "", args |-> <<>>, done |-> FALSE, ret |-> ""]

NoError == [type |-> "", at |-> ""]
Error(type, at) == [type |-> type, at |-> at]

\* the time contexts a caller may pass, well-formed or not
RawTimecontexts ==
    {None} \cup (Timestamps \X Timestamps)
           \cup {<<0>>, <<NotATimestamp, 0>>, <<0, NotATimestamp>>}

\* the aggregation contexts a caller may pass ("None": not given)
AggContexts == {"None", "Window"}

\* a seed scope: some nodes cached under one time context
SeedScopes(nodes) ==
    {[n \in nodes |-> [value |-> Val("seed", n), timecontext |-> tc]] :
        tc \in {None, CachedRange}}

\* params: raw values bound to some nodes
Params(nodes) == {[n \in nodes |-> Val("param", n)]}

\* the frame of a call of execute_until_in_scope
Frame(op, sc, tc, vid, par) ==
    [op |-> op, scope |-> sc, timecontext |-> tc, pc |-> "start",
     arg_timecontexts |-> <<>>, new_scope |-> EmptyScope, scopes |-> <<>>,
     result |-> NoneVal, vid |-> vid, par |-> par]

\* the frame of execute_with_scope, for its own pre_execute call
RootFrame == Frame(expr, scope, timecontext, 0, 0)

Top == stack[Len(stack)]

\* an aggregation context chosen anew by every call of execute_until_in_scope
HookAggContextPerCall(f) == IF f.vid = 0 THEN aggcontext ELSE "Summarize"

\* aggcontext=aggcontext: what the call f hands to its hooks and to the calls
\* it makes
HookAggContext(f) == aggcontext

\* an entry of the log, made in the call f
Event(ev, f) ==
    [ev |-> ev, op |-> f.op, vid |-> f.vid, par |-> f.par,
     timecontext |-> f.timecontext, aggcontext |-> HookAggContext(f),
     scope |-> EmptyScope, contrib |-> EmptyScope, atc |-> <<>>, data |-> <<>>,
     value |-> NoneVal, how |-> ""]

\* the identity of the next call of execute_until_in_scope: the position of
\* its entry in the log
NextCall == Len(log) + 1

\* before execute is called
Idle ==
    /\ status = "idle"
    /\ expr = 0
    /\ params = EmptyScope
    /\ seed_scope = EmptyScope
    /\ scope = EmptyScope
    /\ timecontext = None
    /\ aggcontext = "None"
    /\ stack = <<>>
    /\ log = <<>>
    /\ overrides = 0
    /\ result = NoneVal
    /\ error = NoError
    /\ raw_timecontext = None
    /\ raw_aggcontext = "None"

Init ==
    /\ Idle
    /\ call = NoCall

\* an exception that is caught and dropped where it is raised
RaiseSwallowed(type, at) ==
    /\ status' = status
    /\ error' = error
    /\ stack' = stack
    /\ result' = result

\* an exception leaves every active call
Raise(type, at) ==
    /\ status' = "error"
    /\ error' = Error(type, at)
    /\ stack' = <<>>
    /\ result' = result

\* a return of the root that never gets back to execute
ReturnLost(ret) ==
    IF Len(stack) = 1
    THEN /\ status' = "lost"
         /\ stack' = <<>>
         /\ UNCHANGED <<result, error>>
    ELSE /\ stack' = [SubSeq(stack, 1, Len(stack) - 1) EXCEPT
                        ![Len(stack) - 1].scopes = Append(@, ret)]
         /\ UNCHANGED <<status, result, error>>

\* the innermost call returns the scope ret: to the caller, which collects it
\* in scopes, or to execute_with_scope, which takes the root's value out of it
Return(ret) ==
    IF Len(stack) = 1
    THEN IF expr \in DOMAIN ret
         THEN /\ status' = "done"
              /\ result' = ret[expr].value
              /\ stack' = <<>>
              /\ error' = error
         ELSE Raise("KeyError", "execute_with_scope")
    ELSE /\ stack' = [SubSeq(stack, 1, Len(stack) - 1) EXCEPT
                        ![Len(stack) - 1].scopes = Append(@, ret)]
         /\ UNCHANGED <<status, result, error>>

\* the step of the innermost call moves it to pc with some fields changed
Goto(f) ==
    /\ stack' = [stack EXCEPT ![Len(stack)] = f]
    /\ UNCHANGED <<status, result, error>>

\* what no step of execute_with_scope or execute_until_in_scope changes
Request ==
    <<expr, params, seed_scope, scope, timecontext, aggcontext, raw_timecontext,
      raw_aggcontext, call>>

(***************************************************************************)
(* main_execute, and execute_with_scope up to its pre_execute call.         *)
(***************************************************************************)
Execute(e, p, s, tc, agg) ==
    /\ status = "idle"
    /\ expr' = e
    /\ params' = p
    /\ seed_scope' = s
    /\ raw_timecontext' = tc
    /\ raw_aggcontext' = agg
    /\ UNCHANGED <<stack, log, overrides, result, call>>
    /\ IF tc # None /\ canonicalize_raises(tc)
       THEN /\ status' = "error"
            /\ error' = Error("IbisError", "canonicalize_context")
            /\ UNCHANGED <<scope, timecontext, aggcontext>>
       ELSE LET ctx == IF tc # None THEN canonicalize_context(tc) ELSE None
                additional_scope ==
                    [k \in DOMAIN p |-> [value |-> p[k], timecontext |-> ctx]]
            IN  /\ timecontext' = ctx
                /\ scope' = merge(s, additional_scope)
                /\ aggcontext' = IF agg = "None" THEN "Summarize" ELSE agg
                /\ status' = "execute_with_scope"
                /\ error' = error

\* execute_with_scope going straight to execute_until_in_scope
RootWithoutPreExecute(pre_executed_scope) ==
    /\ status = "execute_with_scope"
    /\ pre_executed_scope = EmptyScope
    /\ LET called == Frame(expr, scope, timecontext, NextCall, 0)
       IN  /\ log' = Append(log, [Event("call", called) EXCEPT !.scope = scope])
           /\ stack' = << called >>
           /\ status' = "running"
    /\ UNCHANGED <<Request, overrides, result, error>>

\* execute_with_scope: pre_execute on the root, then the first call of
\* execute_until_in_scope with the merged scope
RootPreExecute(pre_executed_scope) ==
    /\ status = "execute_with_scope"
    /\ pre_executed_scope # EmptyScope => overrides < MaxOverrides
    /\ overrides' = overrides + (IF pre_executed_scope # EmptyScope THEN 1 ELSE 0)
    /\ LET new_scope == merge(scope, pre_executed_scope)
           called == Frame(expr, new_scope, timecontext, NextCall + 1, 0)
       IN  /\ log' = log \o << [Event("pre_execute", RootFrame) EXCEPT
                                   !.scope = scope, !.contrib = pre_executed_scope],
                               [Event("call", called) EXCEPT !.scope = new_scope] >>
           /\ stack' = << called >>
           /\ status' = "running"
    /\ UNCHANGED <<Request, result, error>>

\* a hook raises (no default implementation does): the exception ends the
\* evaluation
HookRaises(hook) ==
    /\ overrides < MaxOverrides
    /\ \/ /\ status = "execute_with_scope"
          /\ hook = "pre_execute"
          /\ log' = Append(log, [Event(hook, RootFrame) EXCEPT !.how = "raise"])
       \/ /\ status = "running"
          /\ \/ hook = "execute_literal" /\ Top.pc = "start" /\ IsLiteral(Top.op)
             \/ /\ hook = "compute_time_context"
                /\ Top.pc = "start"
                /\ ~IsLiteral(Top.op)
                /\ ~get_scope_raises(Top.scope, Top.op, Top.timecontext)
                /\ get_scope(Top.scope, Top.op, Top.timecontext) = NoneVal
                /\ Top.timecontext # None
             \/ hook = "pre_execute" /\ Top.pc = "pre"
             \/ /\ hook = "execute_node"
                /\ Top.pc = "args"
                /\ Len(Top.scopes) = Len(ComputableArgs(Top.op))
             \/ hook = "post_execute" /\ Top.pc = "post"
          /\ log' = Append(log, [Event(hook, Top) EXCEPT !.how = "raise"])
    /\ Raise("HookError", hook)
    /\ overrides' = overrides + 1
    /\ UNCHANGED Request

(***************************************************************************)
(* execute_until_in_scope, one step at a time.  The steps of a call are     *)
(* "start" (the literal and memo checks, the argument time contexts),       *)
(* "pre" (pre_execute and the short circuit), "args" (the computable        *)
(* arguments, left to right, then execute_node) and "post" (post_execute    *)
(* and the scope item returned).                                            *)
(***************************************************************************)
\* `op in new_scope`: presence alone, whatever the range
InScopeAnyRange(sc, op, tc) == op \in DOMAIN sc

\* `get_scope(scope, op, timecontext) is not None`
InScope(sc, op, tc) == get_scope(sc, op, tc) # NoneVal

\* the scope each argument is evaluated in
ArgScope(f) == f.new_scope

\* an evaluator that goes through the arguments from the right
NextArgFromRight(f) == Len(ComputableArgs(f.op)) - Len(f.scopes)

\* the position of the argument evaluated next: the list comprehension goes
\* through zip(computable_args, arg_timecontexts) from the left
NextArg(f) == Len(f.scopes) + 1

\* a check that only refuses too few time contexts
ArityShortfall(arg_timecontexts, computable_args) ==
    Len(arg_timecontexts) < Len(computable_args)

\* `len(arg_timecontexts) != len(computable_args)`
ArityMismatch(arg_timecontexts, computable_args) ==
    Len(arg_timecontexts) # Len(computable_args)

\* `not scopes and computable_args`
NoData(scopes, computable_args) == scopes = <<>> /\ computable_args # <<>>

\* data = [get_scope(new_scope, arg.op()) if hasattr(arg, 'op') else arg ...]
\* the data looked up under the range assigned to each argument
ArgDataRanged(new_scope, computable_args) ==
    [i \in DOMAIN computable_args |->
        IF HasOp(computable_args[i])
        THEN get_scope(new_scope, computable_args[i].id, Top.arg_timecontexts[i])
        ELSE Val("raw", computable_args[i].id)]

\* the data handed to execute_node: one value per computable argument
ArgData(new_scope, computable_args) ==
    [i \in DOMAIN computable_args |->
        IF HasOp(computable_args[i])
        THEN get_scope(new_scope, computable_args[i].id, None)
        ELSE Val("raw", computable_args[i].id)]

\* post_execute bound to the scope of the call it finishes, enriched by
\* pre_execute and by the entries of the arguments
PostExecuteEnrichedScope == Top.new_scope

\* the scope bound to post_execute_ by execute_with_scope
PostExecuteScope == scope

\* a computed path that returns no entry for its node
ComputedScopeWithoutNode(op, computed, tc) == EmptyScope

\* the scope a call returns once its node is computed
ComputedScope(op, computed, tc) == scope_item(op, computed, tc)

\* the literal case: execute_literal, no other hook
ExecuteLiteral ==
    /\ status = "running"
    /\ Top.pc = "start"
    /\ IsLiteral(Top.op)
    /\ LET value == Val("execute_literal", Top.op)
           ret == scope_item(Top.op, value, Top.timecontext)
       IN  /\ log' = log \o << [Event("execute_literal", Top) EXCEPT !.value = value],
                               [Event("return", Top) EXCEPT !.scope = ret,
                                                            !.how = "literal"] >>
           /\ Return(ret)
    /\ UNCHANGED <<Request, overrides>>

\* the base case: the node is in scope, the scope is returned as it is
MemoHit ==
    /\ status = "running"
    /\ Top.pc = "start"
    /\ ~IsLiteral(Top.op)
    /\ ~get_scope_raises(Top.scope, Top.op, Top.timecontext)
    /\ InScope(Top.scope, Top.op, Top.timecontext)
    /\ log' = Append(log, [Event("return", Top) EXCEPT !.scope = Top.scope,
                                                       !.how = "hit"])
    /\ Return(Top.scope)
    /\ UNCHANGED <<Request, overrides>>

\* the lookup of a leaf cached without a time context, under a time context
MemoLookupRaises ==
    /\ status = "running"
    /\ Top.pc = "start"
    /\ ~IsLiteral(Top.op)
    /\ get_scope_raises(Top.scope, Top.op, Top.timecontext)
    /\ Raise("TypeError", "get_scope")
    /\ UNCHANGED <<Request, overrides, log>>

\* a miss under a time context: compute_time_context gives the arguments'
Miss ==
    /\ status = "running"
    /\ Top.pc = "start"
    /\ ~IsLiteral(Top.op)
    /\ ~get_scope_raises(Top.scope, Top.op, Top.timecontext)
    /\ ~InScope(Top.scope, Top.op, Top.timecontext)

ComputeTimeContext(arg_timecontexts) ==
    /\ Miss
    /\ Top.timecontext # None
    /\ arg_timecontexts \in AdjustedTimecontexts(Top.op, Top.timecontext)
          => overrides < MaxOverrides
    /\ overrides' = overrides +
          (IF arg_timecontexts \in AdjustedTimecontexts(Top.op, Top.timecontext)
           THEN 1 ELSE 0)
    /\ log' = Append(log, [Event("compute_time_context", Top) EXCEPT
                              !.atc = arg_timecontexts])
    /\ Goto([Top EXCEPT !.pc = "pre", !.arg_timecontexts = arg_timecontexts])
    /\ UNCHANGED Request

\* a miss without a time context: every argument gets None
NoTimeContext ==
    /\ Miss
    /\ Top.timecontext = None
    /\ Goto([Top EXCEPT !.pc = "pre",
                        !.arg_timecontexts = Repeat(None, Len(ComputableArgs(Top.op)))])
    /\ UNCHANGED <<Request, overrides, log>>

\* scope.update(pre_executed_scope): the scope the call was given is changed
\* in place
WithScopeUpdated(f, new_scope) ==
    [f EXCEPT !.pc = "args", !.new_scope = new_scope, !.scope = new_scope]

\* new_scope = toolz.merge(scope, pre_executed_scope): a new mapping, the
\* scope the call was given stays as it is
WithNewScope(f, new_scope) == [f EXCEPT !.pc = "args", !.new_scope = new_scope]

\* pre_execute, the merge of its result, the short circuit and the arity check
PreExecute(pre_executed_scope) ==
    /\ status = "running"
    /\ Top.pc = "pre"
    /\ pre_executed_scope # EmptyScope => overrides < MaxOverrides
    /\ overrides' = overrides + (IF pre_executed_scope # EmptyScope THEN 1 ELSE 0)
    /\ LET new_scope == merge(Top.scope, pre_executed_scope)
           called == [Event("pre_execute", Top) EXCEPT !.scope = Top.scope,
                                                       !.contrib = pre_executed_scope]
       IN  IF get_scope_raises(new_scope, Top.op, Top.timecontext)
           THEN /\ log' = Append(log, called)
                /\ Raise("TypeError", "get_scope")
           ELSE IF InScope(new_scope, Top.op, Top.timecontext)
           THEN /\ log' = log \o << called,
                                    [Event("return", Top) EXCEPT !.scope = new_scope,
                                                                  !.how = "short_circuit"] >>
                /\ Return(new_scope)
           ELSE IF ArityMismatch(Top.arg_timecontexts, ComputableArgs(Top.op))
           THEN /\ log' = Append(log, called)
                /\ Raise("IbisError", "arg_timecontexts")
           ELSE /\ log' = Append(log, called)
                /\ Goto(WithNewScope(Top, new_scope))
    /\ UNCHANGED Request

\* the next computable argument is an expression: the recursive call
CallArg ==
    /\ status = "running"
    /\ Top.pc = "args"
    /\ Len(Top.scopes) < Len(ComputableArgs(Top.op))
    /\ LET i == NextArg(Top)
           arg == ComputableArgs(Top.op)[i]
           called == Frame(arg.id, ArgScope(Top), Top.arg_timecontexts[i],
                           NextCall, Top.vid)
       IN  /\ HasOp(arg)
           /\ stack' = Append(stack, called)
           /\ log' = Append(log, [Event("call", called) EXCEPT !.scope = called.scope])
    /\ UNCHANGED <<Request, overrides, status, result, error>>

\* the next computable argument is no expression: it is its own value
WrapArg ==
    /\ status = "running"
    /\ Top.pc = "args"
    /\ Len(Top.scopes) < Len(ComputableArgs(Top.op))
    /\ LET i == NextArg(Top)
           arg == ComputableArgs(Top.op)[i]
       IN  /\ ~HasOp(arg)
           /\ Goto([Top EXCEPT !.scopes =
                      Append(@, scope_item(arg.id, Val("raw", arg.id),
                                           Top.arg_timecontexts[i]))])
    /\ UNCHANGED <<Request, overrides, log>>

\* every argument is evaluated: the unbound check, the merge, execute_node
ExecuteNode ==
    /\ status = "running"
    /\ Top.pc = "args"
    /\ Len(Top.scopes) = Len(ComputableArgs(Top.op))
    /\ IF NoData(Top.scopes, ComputableArgs(Top.op))
       THEN /\ Raise("UnboundExpressionError", "execute_until_in_scope")
            /\ log' = log
       ELSE LET new_scope == merge_all(Top.new_scope, Top.scopes)
                data == ArgData(new_scope, ComputableArgs(Top.op))
                value == Val("execute_node", Len(log) + 1)
            IN  /\ log' = Append(log, [Event("execute_node", Top) EXCEPT
                                          !.scope = Top.scope, !.data = data,
                                          !.value = value])
                /\ Goto([Top EXCEPT !.pc = "post", !.new_scope = new_scope,
                                    !.result = value])
    /\ UNCHANGED <<Request, overrides>>

\* what post_execute makes of the result of execute_node
PostExecuteValue(value) == Val("post_execute", value.id)

\* post_execute, and the scope item of the node is returned
PostExecute ==
    /\ status = "running"
    /\ Top.pc = "post"
    /\ LET computed == PostExecuteValue(Top.result)
           ret == ComputedScope(Top.op, computed, Top.timecontext)
       IN  /\ log' = log \o << [Event("post_execute", Top) EXCEPT
                                   !.scope = PostExecuteScope, !.data = << Top.result >>,
                                   !.value = computed],
                               [Event("return", Top) EXCEPT !.scope = ret,
                                                            !.how = "computed"] >>
           /\ Return(ret)
    /\ UNCHANGED <<Request, overrides>>

\* the results compute_time_context may return for the innermost call
TimeContextResults ==
    {compute_time_context_default(Top.op, Top.timecontext)}
        \cup MiscountedTimecontexts(Top.op, Top.timecontext)
        \cup AdjustedTimecontexts(Top.op, Top.timecontext)

\* the requests of the caller: a node, a time context, and at most MaxSeed
\* optional arguments (entries of the seed scope, params, an aggregation
\* context); the entries are for nodes of the expression
Next ==
    \/ /\ status = "idle"
       /\ \E e \in Nodes :
          \E seeded \in SUBSET Subtree(e), bound \in SUBSET Subtree(e), agg \in AggContexts :
             /\ Cardinality(seeded) + Cardinality(bound)
                   + (IF agg = "None" THEN 0 ELSE 1) <= MaxSeed
             /\ \E s \in SeedScopes(seeded), p \in Params(bound), tc \in RawTimecontexts :
                   Execute(e, p, s, tc, agg)
    \/ /\ status = "execute_with_scope"
       /\ \E pre \in {EmptyScope} \cup PreExecuteOverrides(expr, scope, timecontext) :
             RootPreExecute(pre)
    \/ ExecuteLiteral
    \/ MemoHit
    \/ MemoLookupRaises
    \/ /\ Miss
       /\ Top.timecontext # None
       /\ \E atc \in TimeContextResults : ComputeTimeContext(atc)
    \/ NoTimeContext
    \/ /\ status = "running"
       /\ \E pre \in {EmptyScope}
                       \cup PreExecuteOverrides(Top.op, Top.scope, Top.timecontext) :
             PreExecute(pre)
    \/ CallArg
    \/ WrapArg
    \/ ExecuteNode
    \/ PostExecute
    \/ \E hook \in {"pre_execute", "compute_time_context", "execute_literal",
                    "execute_node", "post_execute"} :
          HookRaises(hook)

Spec == Init /\ [][Next]_vars

\* execute is called, and the evaluation is one sequential computation: a
\* step that can be taken is taken, every hook called returns or raises
FairSpec == Spec /\ WF_vars(Next)

(***************************************************************************)
(* The helper functions called on their own.  `call` holds one call: the    *)
(* function, its arguments and, once the call is done, what it returned.    *)
(***************************************************************************)
\* the state of the evaluator, which a helper called on its own leaves alone
Evaluation ==
    <<status, expr, params, seed_scope, scope, timecontext, aggcontext,
      stack, log, overrides, result, error, raw_timecontext,
      raw_aggcontext>>

\* a call of fn with args that has not run yet
Pending(fn, args) == [fn |-> fn, args |-> args, done |-> FALSE, ret |-> ""]

\* the call has returned ret
Returned(ret) ==
    /\ call' = [call EXCEPT !.done = TRUE, !.ret = ret]
    /\ UNCHANGED Evaluation

\* class TimeContextRelation
TimeContextRelation == {"SUBSET", "SUPERSET", "OVERLAP", "NONOVERLAP"}

\* pairs (begin, end) of timestamps, in either order
TimestampPairs == Timestamps \X Timestamps

CompareCalls ==
    {Pending("compare_timecontext", <<cur, old>>) : cur, old \in TimestampPairs}

CallCompareTimecontext ==
    /\ call.fn = "compare_timecontext"
    /\ ~call.done
    /\ Returned(compare_timecontext(call.args[1], call.args[2]))

\* the scopes looked up: any nodes, cached with or without a range
LookupScopes == UNION {SeedScopes(nodes) : nodes \in SUBSET Nodes}

GetScopeCalls ==
    {Pending("get_scope", <<sc, op, tc>>) :
        sc \in LookupScopes, op \in Nodes, tc \in {None} \cup Ranges}

CallGetScope ==
    /\ call.fn = "get_scope"
    /\ ~call.done
    /\ LET sc == call.args[1]
           op == call.args[2]
           tc == call.args[3]
       IN  IF get_scope_raises(sc, op, tc)
           THEN Returned(Val("TypeError", 0))
           ELSE Returned(get_scope(sc, op, tc))

(***************************************************************************)
(* execute_and_reset, applied to what execute returned.  A table            *)
(* (pd.DataFrame) has an index (one label per row, under a name or under    *)
(* none, ""), columns in an order, and cells; a column (pd.Series) has an   *)
(* index and cells; anything else is a scalar.                              *)
(***************************************************************************)
ColumnNames == {"a", "b"}

\* sequences of distinct column names
ColumnLists ==
    {<<>>} \cup {<<c>> : c \in ColumnNames}
           \cup {p \in ColumnNames \X ColumnNames : p[1] # p[2]}

\* expr.schema().names of a table expression
SchemaNames == ColumnLists \ {<<>>}

\* the indexes of a result: any labels, dense or not, repeated or not
Indexes == UNION {[1 .. n -> 0 .. MaxRows] : n \in 0 .. MaxRows}

Names(columns) == {columns[i] : i \in DOMAIN columns}

\* the cell of row i in the column c of the table execute returned
Cell(c, i) == <<c, i>>

\* the cell made of an index label
LabelCell(label) == <<"label", label>>

DataFrame(index, index_name, columns) ==
    [type |-> "DataFrame", index |-> index, index_name |-> index_name,
     columns |-> columns,
     data |-> [c \in Names(columns) |-> [i \in DOMAIN index |-> Cell(c, i)]]]

Series(index) ==
    [type |-> "Series", index |-> index,
     data |-> [i \in DOMAIN index |-> Cell("", i)]]

Scalar(v) == [type |-> "scalar", value |-> v]

Raised(type) == [type |-> type]

\* pd.RangeIndex over the rows of index
RangeIndex(index) == [i \in DOMAIN index |-> i - 1]

\* the name reset_index gives the column made of the index
IndexColumn(df) ==
    IF df.index_name # "" THEN df.index_name
    ELSE IF "index" \notin Names(df.columns) THEN "index"
    ELSE "level_0"

\* a reset_index that leaves the frame as it is
keep_index(df) == df

\* df.reset_index(): the index becomes the first column, the rows are
\* numbered from 0 (ValueError when a column of that name exists)
reset_index(df) ==
    IF IndexColumn(df) \in Names(df.columns) THEN Raised("ValueError")
    ELSE [type |-> "DataFrame", index |-> RangeIndex(df.index), index_name |-> "",
          columns |-> <<IndexColumn(df)>> \o df.columns,
          data |-> [c \in Names(df.columns) \cup {IndexColumn(df)} |->
                       IF c \in Names(df.columns) THEN df.data[c]
                       ELSE [i \in DOMAIN df.index |-> LabelCell(df.index[i])]]]

\* df.loc[:, names] (KeyError when a name is no column)
loc_columns(df, names) ==
    IF ~(Names(names) \subseteq Names(df.columns)) THEN Raised("KeyError")
    ELSE [df EXCEPT !.columns = names,
                    !.data = [c \in Names(names) |-> df.data[c]]]

\* series.reset_index(drop=True)
reset_index_drop(series) == [series EXCEPT !.index = RangeIndex(series.index)]

\* execute_and_reset, after its call of execute
execute_and_reset(executed, names) ==
    IF executed.type = "DataFrame"
    THEN LET df == reset_index(executed)
         IN  IF df.type # "DataFrame" THEN df ELSE loc_columns(df, names)
    ELSE IF executed.type = "Series" THEN reset_index_drop(executed)
    ELSE executed

\* what execute may return, with the schema of the expression
ExecuteAndResetCalls ==
    {Pending("execute_and_reset", <<DataFrame(index, index_name, columns), names>>) :
        index \in Indexes, index_name \in ColumnNames \cup {""},
        columns \in ColumnLists, names \in SchemaNames}
    \cup {Pending("execute_and_reset", <<Series(index), <<>> >>) : index \in Indexes}
    \cup {Pending("execute_and_reset", <<Scalar(v), <<>> >>) : v \in Timestamps}

CallExecuteAndReset ==
    /\ call.fn = "execute_and_reset"
    /\ ~call.done
    /\ Returned(execute_and_reset(call.args[1], call.args[2]))


(***************************************************************************)
(* csv_pre_execute_selection: the pre_execute of a selection over CSV       *)
(* files.  A physical table is named by its file; the file has a header.    *)
(***************************************************************************)
\* the files of the client and their headers
Header == [t |-> <<"a", "b", "c">>, u |-> <<"a", "d">>]

CsvTables == DOMAIN Header

\* the names of op.selections: none, or distinct names
Selections ==
    LET names == {"a", "b", "d"}
    IN  {<<>>} \cup {<<c>> : c \in names} \cup {p \in names \X names : p[1] # p[2]}

\* usecols=None: every column is read
AllColumns == <<>>

\* _read_csv(path, table.schema, usecols=usecols, header=0)
ReadCsv(table, usecols) ==
    [src |-> "read_csv", table |-> table,
     columns |-> IF usecols = AllColumns THEN Header[table]
                 ELSE SelectSeq(Header[table], LAMBDA c : c \in Names(usecols))]

\* usecols that are never given up
UsecolsUnchecked(table, selections) == selections

\* usecols for a table: the selected names, unless one of them is missing in
\* the header of the file
Usecols(table, selections) ==
    IF selections # <<>>
    THEN IF Cardinality(Names(selections) \cap Names(Header[table])) # Len(selections)
         THEN AllColumns
         ELSE selections
    ELSE AllColumns

csv_pre_execute_selection(physical_tables, sc, selections, tc) ==
    LET tables == {t \in physical_tables : t \notin DOMAIN sc}
    IN  [t \in tables |->
            [value |-> ReadCsv(t, Usecols(t, selections)), timecontext |-> tc]]

\* the scopes the hook is given: some tables are in scope already
CsvScopes ==
    {[t \in tables |-> [value |-> [src |-> "scope", table |-> t, columns |-> Header[t]],
                        timecontext |-> None]] : tables \in SUBSET CsvTables}

CsvPreExecuteCalls ==
    {Pending("csv_pre_execute_selection", <<tables, sc, selections, tc>>) :
        tables \in SUBSET CsvTables \ {{}}, sc \in CsvScopes,
        selections \in Selections, tc \in {None, CachedRange}}

CallCsvPreExecuteSelection ==
    /\ call.fn = "csv_pre_execute_selection"
    /\ ~call.done
    /\ Returned(csv_pre_execute_selection(call.args[1], call.args[2],
                                          call.args[3], call.args[4]))

(***************************************************************************)
(* The PySpark backend: filter_by_time_context.  A Spark DataFrame is its   *)
(* rows, in order, each with its 'time' value when the frame has a 'time'   *)
(* column.                                                                  *)
(***************************************************************************)
SparkDataFrame(has_time, rows) ==
    [type |-> "SparkDataFrame", has_time |-> has_time, rows |-> rows]

\* the rows of a frame: their 'time' values
TimeRows == UNION {[1 .. n -> Timestamps] : n \in 0 .. MaxRows}

\* filter_by_time_context(df, timecontext)
filter_by_time_context(df, tc) ==
    IF tc = None THEN df
    ELSE IF df.has_time
    THEN [df EXCEPT !.rows = SelectSeq(df.rows, LAMBDA t : t >= tc[1] /\ t < tc[2])]
    ELSE Raised("TranslationError")

FilterCalls ==
    {Pending("filter_by_time_context", <<SparkDataFrame(has_time, rows), tc>>) :
        has_time \in BOOLEAN, rows \in TimeRows, tc \in {None} \cup Ranges}

CallFilterByTimeContext ==
    /\ call.fn = "filter_by_time_context"
    /\ ~call.done
    /\ Returned(filter_by_time_context(call.args[1], call.args[2]))

(***************************************************************************)
(* The default implementations of compute_time_context, of the pandas and   *)
(* of the PySpark backend.                                                  *)
(***************************************************************************)
\* pyspark: [timecontext for arg in node.inputs]
pyspark_compute_time_context_default(op, tc) ==
    Repeat(tc, Len(Ops[op].inputs))

ComputeTimeContextCalls ==
    {Pending(fn, <<op, tc>>) :
        fn \in {"compute_time_context_default",
                "pyspark_compute_time_context_default"},
        op \in Nodes, tc \in {None} \cup Ranges}

CallComputeTimeContextDefault ==
    /\ call.fn = "compute_time_context_default"
    /\ ~call.done
    /\ Returned(compute_time_context_default(call.args[1], call.args[2]))

CallPysparkComputeTimeContextDefault ==
    /\ call.fn = "pyspark_compute_time_context_default"
    /\ ~call.done
    /\ Returned(pyspark_compute_time_context_default(call.args[1], call.args[2]))

CallsInit ==
    /\ Idle
    /\ \/ call \in CompareCalls
       \/ call \in GetScopeCalls
       \/ call \in ExecuteAndResetCalls
       \/ call \in CsvPreExecuteCalls
       \/ call \in FilterCalls
       \/ call \in ComputeTimeContextCalls

CallsNext ==
    \/ CallCompareTimecontext
    \/ CallGetScope
    \/ CallExecuteAndReset
    \/ CallCsvPreExecuteSelection
    \/ CallFilterByTimeContext
    \/ CallComputeTimeContextDefault
    \/ CallPysparkComputeTimeContextDefault

Calls == CallsInit /\ [][CallsNext]_vars

(***************************************************************************)
(* Reading the log.                                                         *)
(***************************************************************************)
Events == DOMAIN log

\* the calls of execute_until_in_scope; a call is named by the position of
\* its "call" entry
CallEvents == {c \in Events : log[c].ev = "call"}

\* the hook calls that returned
HookCalls(hook) == {i \in Events : log[i].ev = hook /\ log[i].how # "raise"}

\* the entries of the hooks the general path of a node goes through
GeneralHooks == {"pre_execute", "compute_time_context", "execute_node", "post_execute"}

\* the call c has returned, at entry i
ReturnOf(c, i) == i \in Events /\ log[i].ev = "return" /\ log[i].vid = c

\* the entries made while the call c was active: its own and those of the
\* calls below it
During(c) ==
    {i \in Events : i >= c /\ \A j \in Events : ReturnOf(c, j) => i <= j}

\* the range cur lies within the range old
Within(cur, old) == old[1] <= cur[1] /\ cur[2] <= old[2]

\* the entry of node n in the scope sc answers a request under tc: no range
\* is requested, or n is a range-sensitive leaf cached under a range that
\* contains the requested one
Answers(sc, n, tc) ==
    /\ n \in DOMAIN sc
    /\ sc[n].value # NoneVal
    /\ \/ tc = None
       \/ /\ IsRangeSensitiveLeaf(n)
          /\ sc[n].timecontext # None
          /\ Within(tc, sc[n].timecontext)

(***************************************************************************)
(* C1 as claimed: for EVERY node, if the node is in the scope passed to     *)
(* execute_until_in_scope under a cached range that contains the requested  *)
(* range, the call returns the cached value and execute_node is called      *)
(* neither for the node nor for any of its inputs.                          *)
(***************************************************************************)
C1_AnyNodeCachedIsReused ==
    \A c \in CallEvents :
        LET n == log[c].op
            sc == log[c].scope
            tc == log[c].timecontext
        IN  (/\ n \in DOMAIN sc
             /\ tc # None
             /\ sc[n].timecontext # None
             /\ Within(tc, sc[n].timecontext))
            => /\ \A i \in During(c) : log[i].ev # "execute_node"
               /\ \A i \in Events :
                     ReturnOf(c, i) => /\ n \in DOMAIN log[i].scope
                                       /\ log[i].scope[n].value = sc[n].value

(***************************************************************************)
(* C1, amended: for every node that is no literal, if the lookup of the     *)
(* node in the scope passed to execute_until_in_scope hits (no range is     *)
(* requested, or the node is a range-sensitive leaf cached under a range    *)
(* that contains the requested one), the call returns the scope it was      *)
(* given, unchanged, as its next step: no hook is called for the node or    *)
(* for any of its inputs.                                                   *)
(***************************************************************************)
C1_MemoHitSkipsSubtree ==
    \A c \in CallEvents :
        (Ops[log[c].op].kind # "Literal"
            /\ Answers(log[c].scope, log[c].op, log[c].timecontext))
        => /\ During(c) \subseteq {c, c + 1}
           /\ c + 1 \in Events =>
                 /\ ReturnOf(c, c + 1)
                 /\ log[c + 1].how = "hit"
                 /\ log[c + 1].scope = log[c].scope
           /\ c + 1 \notin Events => (stack # <<>> /\ Top.vid = c /\ Top.pc = "start")

\* C1 witness: a column cached under a range containing the requested one is
\* an input of node 4, and its call returned the scope at once
C1_Witness ==
    \E c \in CallEvents :
        /\ log[c].par # 0
        /\ ExprInputs(log[c].op) # {}
        /\ log[c].timecontext # None
        /\ Answers(log[c].scope, log[c].op, log[c].timecontext)
        /\ log[c].timecontext # log[c].scope[log[c].op].timecontext
        /\ ReturnOf(c, c + 1)
        /\ status = "done"

(***************************************************************************)
(* C2: within one top-level evaluation execute_node is called for a         *)
(* non-literal node at most once per requested range, even when the node    *)
(* is reachable through two parents: the later sibling reuses the entry     *)
(* made while the earlier sibling was evaluated.                            *)
(***************************************************************************)
C2_SharedNodeComputedOnce ==
    \A i, j \in HookCalls("execute_node") :
        (/\ ~IsLiteral(log[i].op)
         /\ log[i].op = log[j].op
         /\ log[i].timecontext = log[j].timecontext) => i = j

(***************************************************************************)
(* C3 as claimed: when a range-sensitive leaf is cached under a range, a    *)
(* call under a requested range contained in it returns the cached value,   *)
(* and a call under any other requested range recomputes the leaf by        *)
(* execute_node.                                                            *)
(***************************************************************************)
\* the call c is for a range-sensitive leaf that the scope it is given holds
\* under a range, and a range is requested
LeafCachedUnderRange(c) ==
    /\ IsRangeSensitiveLeaf(log[c].op)
    /\ log[c].op \in DOMAIN log[c].scope
    /\ log[c].scope[log[c].op].timecontext # None
    /\ log[c].scope[log[c].op].value # NoneVal
    /\ log[c].timecontext # None

\* the requested range of the call c lies within the cached one
RequestContained(c) == Within(log[c].timecontext, log[c].scope[log[c].op].timecontext)

\* execute_node was called for the node of the call c before entry r
ComputedBefore(c, r) ==
    \E i \in HookCalls("execute_node") : log[i].vid = c /\ i < r

C3_MissRecomputesByExecuteNode ==
    \A c \in CallEvents : LeafCachedUnderRange(c) =>
        \A r \in Events : ReturnOf(c, r) =>
            IF RequestContained(c)
            THEN /\ log[c].op \in DOMAIN log[r].scope
                 /\ log[r].scope[log[c].op].value = log[c].scope[log[c].op].value
            ELSE ComputedBefore(c, r)

(***************************************************************************)
(* C3, amended: when a range-sensitive leaf is cached under a range, a      *)
(* call under a requested range contained in it returns the scope with the  *)
(* cached value at once; a call under any other requested range             *)
(* (SUPERSET, OVERLAP, NONOVERLAP) never returns the cached entry as a hit: *)
(* if it returns, either execute_node was called for the leaf, or the       *)
(* leaf's own pre_execute supplied an entry for it under a range that       *)
(* contains the requested one.                                              *)
(***************************************************************************)
\* the pre_execute of the call c supplied an entry that answers the request
SuppliedByPreExecute(c, r) ==
    \E i \in HookCalls("pre_execute") :
        /\ log[i].vid = c
        /\ i < r
        /\ Answers(log[i].contrib, log[c].op, log[c].timecontext)

C3_LeafRangeRule ==
    \A c \in CallEvents : LeafCachedUnderRange(c) =>
        \A r \in Events : ReturnOf(c, r) =>
            IF RequestContained(c)
            THEN /\ r = c + 1
                 /\ log[r].how = "hit"
                 /\ log[r].scope = log[c].scope
            ELSE /\ log[r].how # "hit"
                 /\ r > c + 1
                 /\ ComputedBefore(c, r) \/ SuppliedByPreExecute(c, r)
                 /\ ComputedBefore(c, r) =>
                       log[r].scope[log[c].op].value # log[c].scope[log[c].op].value

\* C3 witness: a leaf cached under CachedRange was requested under a range
\* that reaches beyond it, and its call returned after execute_node
C3_Witness ==
    \E c \in CallEvents : \E r \in Events :
        /\ LeafCachedUnderRange(c)
        /\ compare_timecontext(log[c].timecontext,
                               log[c].scope[log[c].op].timecontext) = "SUPERSET"
        /\ ReturnOf(c, r)
        /\ ComputedBefore(c, r)

(***************************************************************************)
(* C4: hook order within one evaluation.  For every call of                 *)
(* execute_until_in_scope that computes its node: pre_execute of the node   *)
(* is called before any child is visited, execute_node before              *)
(* post_execute, post_execute before the call returns the entry made for    *)
(* the node, and the children are visited in the left-to-right order of     *)
(* the node's inputs.                                                       *)
(***************************************************************************)
\* the calls made for the arguments of the call c
Children(c) == {k \in CallEvents : log[k].par = c}

\* the sub-expression inputs of op, from the left
ExprArgs(op) == SelectSeq(Ops[op].inputs, HasOp)

\* the entries of hook for the call c, raised or not
HookEntries(hook, c) == {i \in Events : log[i].ev = hook /\ log[i].vid = c}

C4_HookOrder ==
    \A c \in CallEvents :
        /\ \A k \in Children(c) :
              /\ \E i \in HookEntries("pre_execute", c) : i < k /\ log[i].how # "raise"
              /\ \A i \in HookEntries("pre_execute", c) : i < k
              /\ LET nth == Cardinality({j \in Children(c) : j <= k})
                 IN  /\ nth <= Len(ExprArgs(log[c].op))
                     /\ log[k].op = ExprArgs(log[c].op)[nth].id
        /\ \A e \in HookEntries("execute_node", c) :
              /\ Cardinality(Children(c)) = Len(ExprArgs(log[c].op))
              /\ \A k \in Children(c) : k < e
        /\ \A p \in HookEntries("post_execute", c) :
              /\ \E e \in HookEntries("execute_node", c) : e < p /\ log[e].how # "raise"
              /\ \A e \in HookEntries("execute_node", c) : e < p
        /\ \A r \in Events : (ReturnOf(c, r) /\ log[r].how = "computed") =>
              /\ \E q \in HookEntries("post_execute", c) :
                    /\ q < r
                    /\ log[q].how # "raise"
                    /\ log[r].scope = scope_item(log[c].op, log[q].value, log[c].timecontext)
              /\ \A q \in HookEntries("post_execute", c) : q < r

\* C4 witness: node 4 was computed after its three sub-expression inputs
C4_Witness ==
    \E c \in CallEvents : \E r \in Events :
        /\ Cardinality(Children(c)) = 3
        /\ ReturnOf(c, r)
        /\ log[r].how = "computed"

(***************************************************************************)
(* C5: every execute_node call that returns is followed by exactly one      *)
(* post_execute call for the same visit, as the next hook call, and the     *)
(* scope post_execute receives is the scope the caller handed to the        *)
(* top-level evaluation (the seed scope and the bound params), not one      *)
(* enriched by pre_execute or by the recursion.                             *)
(***************************************************************************)
\* the seed scope merged with the params bound under the time context
CallerScope ==
    merge(seed_scope,
          [k \in DOMAIN params |-> [value |-> params[k], timecontext |-> timecontext]])

C5_PostExecuteFollowsExecuteNode ==
    /\ \A e \in HookCalls("execute_node") :
          /\ e = Len(log) => (stack # <<>> /\ Top.vid = log[e].vid /\ Top.pc = "post")
          /\ e < Len(log) => (log[e + 1].ev = "post_execute" /\ log[e + 1].vid = log[e].vid)
    /\ \A c \in CallEvents :
          /\ Cardinality(HookEntries("post_execute", c)) <= 1
          /\ \A p \in HookEntries("post_execute", c) :
                /\ p - 1 \in HookCalls("execute_node")
                /\ log[p - 1].vid = c
                /\ log[p].how # "raise" =>
                      /\ log[p].scope = CallerScope
                      /\ log[p].data = << log[p - 1].value >>
          /\ \A r \in Events : (ReturnOf(c, r) /\ log[r].how = "computed") =>
                Cardinality(HookEntries("post_execute", c)) = 1

\* C5 witness: post_execute was called for a node whose call had enriched
\* its scope, under a caller's scope that is not empty
C5_Witness ==
    \E p \in HookCalls("post_execute") :
        /\ CallerScope # EmptyScope
        /\ \E i \in HookCalls("pre_execute") :
              log[i].vid = log[p].vid /\ log[i].contrib # EmptyScope
        /\ log[p].scope = CallerScope

(***************************************************************************)
(* C6 as claimed: pre_execute is called twice for every node that is        *)
(* visited and computed, once before its children are determined and once   *)
(* after its result has been merged.                                        *)
(***************************************************************************)
C6_PreExecuteBeforeAndAfter ==
    \A c \in CallEvents : \A r \in Events :
        (ReturnOf(c, r) /\ log[r].how = "computed") =>
            \E i, j \in HookCalls("pre_execute") : \E e \in HookEntries("execute_node", c) :
                /\ log[i].op = log[c].op
                /\ log[j].op = log[c].op
                /\ i < e
                /\ e < j

(***************************************************************************)
(* C6, amended: execute_with_scope calls pre_execute once, for the root,    *)
(* before the traversal starts, and every call of execute_until_in_scope    *)
(* that gets past the literal and memo checks calls pre_execute once,       *)
(* before any child is visited and before execute_node.  A computed root    *)
(* so gets two pre_execute calls, both before its children; any other       *)
(* computed node gets one per visit; pre_execute is never called for a      *)
(* visit after its execute_node.                                            *)
(***************************************************************************)
C6_PreExecuteOncePerCall ==
    /\ Cardinality({i \in Events : log[i].ev = "pre_execute" /\ log[i].vid = 0}) <= 1
    /\ \A c \in CallEvents :
          /\ log[c].par = 0 =>
                /\ c = 2
                /\ log[1].ev = "pre_execute"
                /\ log[1].vid = 0
                /\ log[1].op = log[c].op
                /\ log[1].how # "raise"
          /\ Cardinality(HookEntries("pre_execute", c)) <= 1
          /\ \A i \in HookEntries("pre_execute", c) :
                /\ \A k \in Children(c) : i < k
                /\ \A e \in HookEntries("execute_node", c) : i < e
          /\ \A e \in HookEntries("execute_node", c) :
                \E i \in HookEntries("pre_execute", c) : log[i].how # "raise"

\* C6 witness: the root was computed after two pre_execute calls for it, and
\* a node below it after one
C6_Witness ==
    \E c, k \in CallEvents :
        /\ log[c].par = 0
        /\ k \in Children(c)
        /\ \E r \in Events : ReturnOf(c, r) /\ log[r].how = "computed"
        /\ \E r \in Events : ReturnOf(k, r) /\ log[r].how = "computed"
        /\ Cardinality({i \in HookCalls("pre_execute") : log[i].op = log[c].op}) = 2
        /\ Cardinality({i \in HookCalls("pre_execute") : log[i].op = log[k].op}) = 1

(***************************************************************************)
(* C7 as claimed: whenever the scope returned by a node's pre_execute       *)
(* holds an entry for the node, the call returns without visiting a child   *)
(* and without execute_node or post_execute for the node, whether a range   *)
(* is requested or not.                                                     *)
(***************************************************************************)
\* the pre_execute calls made by execute_until_in_scope whose result holds an
\* entry for their own node
SelfSupplying == {i \in HookCalls("pre_execute") : log[i].vid # 0 /\ log[i].op \in DOMAIN log[i].contrib}

C7_AnyEntryShortCircuits ==
    \A i \in SelfSupplying :
        /\ Children(log[i].vid) = {}
        /\ HookEntries("execute_node", log[i].vid) = {}
        /\ HookEntries("post_execute", log[i].vid) = {}

(***************************************************************************)
(* C7, amended: when the scope returned by a node's pre_execute holds an    *)
(* entry for the node, and either no range is requested or the node is a    *)
(* range-sensitive leaf whose entry is under a range containing the         *)
(* requested one, the call returns the merged scope at once, without        *)
(* visiting a child and without execute_node or post_execute.  Under a      *)
(* requested range an entry for a node of any other kind is ignored: the    *)
(* call does not return by the short circuit.                               *)
(***************************************************************************)
C7_ShortCircuit ==
    \A i \in SelfSupplying :
        LET c == log[i].vid
        IN  IF Answers(log[i].contrib, log[i].op, log[i].timecontext)
            THEN /\ i < Len(log)
                 /\ ReturnOf(c, i + 1)
                 /\ log[i + 1].how = "short_circuit"
                 /\ log[i + 1].scope = merge(log[i].scope, log[i].contrib)
                 /\ Children(c) = {}
                 /\ HookEntries("execute_node", c) = {}
                 /\ HookEntries("post_execute", c) = {}
            ELSE /\ \A r \in Events : ReturnOf(c, r) => log[r].how = "computed"
                 /\ i = Len(log) =>
                       \/ status = "error" /\ error = Error("IbisError", "arg_timecontexts")
                       \/ status = "running" /\ Top.vid = c /\ Top.pc = "args"

\* C7 witness: a short circuit under a requested range
C7_Witness ==
    \E i \in SelfSupplying :
        /\ log[i].timecontext # None
        /\ ReturnOf(log[i].vid, i + 1)
        /\ log[i + 1].how = "short_circuit"

(***************************************************************************)
(* C8 as claimed: evaluating a literal calls execute_literal only, and      *)
(* never execute_node, pre_execute, post_execute or compute_time_context    *)
(* for the literal, whatever the scope and the requested range.             *)
(***************************************************************************)
\* the constant nodes of the expression
LiteralNodes == {n \in Nodes : Ops[n].kind = "Literal"}

C8_LiteralCallsNoOtherHook ==
    \A i \in Events : log[i].op \in LiteralNodes => log[i].ev \notin GeneralHooks

(***************************************************************************)
(* C8, amended: a call of execute_until_in_scope for a literal calls        *)
(* execute_literal and returns the entry made of its result, whatever the   *)
(* scope and the requested range; execute_node, post_execute and            *)
(* compute_time_context are never called for a literal, and pre_execute     *)
(* only by execute_with_scope, once, when the literal is the root.          *)
(***************************************************************************)
C8_LiteralFastPath ==
    /\ \A i \in Events : (log[i].op \in LiteralNodes /\ log[i].ev \in GeneralHooks) =>
          /\ log[i].ev = "pre_execute"
          /\ log[i].vid = 0
          /\ i = 1
    /\ \A c \in CallEvents : log[c].op \in LiteralNodes =>
          /\ During(c) \subseteq {c, c + 1, c + 2}
          /\ c + 1 \in Events => (log[c + 1].ev = "execute_literal" /\ log[c + 1].vid = c)
          /\ c + 2 \in Events =>
                /\ ReturnOf(c, c + 2)
                /\ log[c + 2].how = "literal"
                /\ log[c + 2].scope =
                      scope_item(log[c].op, log[c + 1].value, log[c].timecontext)

\* C8 witness: a literal that the scope already holds was evaluated under a
\* requested range, as an input of node 4
C8_Witness ==
    \E c \in CallEvents :
        /\ log[c].op \in LiteralNodes
        /\ log[c].par # 0
        /\ log[c].timecontext # None
        /\ log[c].op \in DOMAIN log[c].scope
        /\ ReturnOf(c, c + 2)

(***************************************************************************)
(* C9 as claimed: whenever a range is set and compute_time_context          *)
(* returns, for a visited node that is no literal and no memo hit, a list   *)
(* whose length differs from the number of the node's computable inputs,    *)
(* the evaluation fails with an error and returns no value.                 *)
(***************************************************************************)
\* the compute_time_context calls that returned a list of the wrong length
Miscounts ==
    {i \in HookCalls("compute_time_context") :
        Len(log[i].atc) # Len(ComputableArgs(log[i].op))}

UnboundCalls ==
    {c \in CallEvents :
        /\ log[c].par # 0
        /\ Ops[log[c].op].kind = "TableNode"
        /\ log[c].op \notin DOMAIN log[c].scope
        /\ \A i \in HookEntries("pre_execute", c) : log[c].op \notin DOMAIN log[i].contrib}

C10_UnboundDataRaises ==
    /\ status = "done" => UnboundCalls = {}
    /\ \A c \in UnboundCalls : \A r \in Events : ~ReturnOf(c, r)
    /\ (status = "error" /\ error.type # "HookError" /\ stack # <<>> /\ Top.vid \in UnboundCalls)
          => error.type = "UnboundExpressionError"

(***************************************************************************)
(* C11: errors are fatal and never swallowed.  If a hook (pre_execute,      *)
(* compute_time_context, execute_literal, execute_node, post_execute)       *)
(* fails for a node visited during an evaluation, the top-level execute     *)
(* fails with that error and returns no value, and no hook is called        *)
(* afterwards: the failed call is the last entry of the log, and no call of *)
(* execute_until_in_scope is active any more.                               *)
(***************************************************************************)
\* the hook calls that raised
HookFailures == {i \in Events : log[i].how = "raise"}

C11_HookErrorIsFatal ==
    \A i \in HookFailures :
        /\ i = Len(log)
        /\ status = "error"
        /\ error = Error("HookError", log[i].ev)
        /\ result = NoneVal
        /\ stack = <<>>

\* C11 witness: execute_node failed for an input of the root, after other
\* hooks had been called
C11_Witness ==
    \E i \in HookFailures :
        /\ log[i].ev = "execute_node"
        /\ log[i].par # 0
        /\ HookCalls("pre_execute") # {}
        /\ status = "error"

(***************************************************************************)
(* C12: compare_timecontext is total and its outcomes are mutually          *)
(* exclusive: for every pair of ranges (cur, old) it returns exactly one    *)
(* of SUBSET, SUPERSET, OVERLAP, NONOVERLAP; it returns SUBSET exactly      *)
(* when old.begin <= cur.begin and old.end >= cur.end; and compare(x, x)    *)
(* is SUBSET for every range x.                                             *)
(***************************************************************************)
\* a call of compare_timecontext has returned
Compared == call.fn = "compare_timecontext" /\ call.done

C12_CompareTotalAndExclusive ==
    Compared =>
        LET cur == call.args[1]
            old == call.args[2]
        IN  /\ Cardinality({r \in TimeContextRelation : call.ret = r}) = 1
            /\ (call.ret = "SUBSET") <=> (old[1] <= cur[1] /\ old[2] >= cur[2])
            /\ cur = old => call.ret = "SUBSET"

\* C12 witness: a range compared with itself
C12_Witness ==
    /\ Compared
    /\ call.args[1] = call.args[2]
    /\ call.ret = "SUBSET"

(***************************************************************************)
(* C13 as claimed: for every pair of ranges (cur, old),                     *)
(* compare_timecontext returns SUPERSET if and only if                      *)
(* old.begin >= cur.begin and old.end <= cur.end.                           *)
(***************************************************************************)
C13_SupersetIff ==
    Compared =>
        LET cur == call.args[1]
            old == call.args[2]
        IN  (call.ret = "SUPERSET") <=> (old[1] >= cur[1] /\ old[2] <= cur[2])

(***************************************************************************)
(* C13, amended: for every pair of ranges (cur, old), compare_timecontext   *)
(* returns SUPERSET if and only if old.begin >= cur.begin and               *)
(* old.end <= cur.end and the two ranges are not identical (SUBSET is       *)
(* tested first, so identical ranges are SUBSET).                           *)
(***************************************************************************)
C13_SupersetIffNotIdentical ==
    Compared =>
        LET cur == call.args[1]
            old == call.args[2]
        IN  (call.ret = "SUPERSET")
                <=> (old[1] >= cur[1] /\ old[2] <= cur[2] /\ cur # old)

\* C13 witness: the old range lies strictly inside the current one
C13_Witness ==
    /\ Compared
    /\ call.args[1] = <<0, 2>>
    /\ call.args[2] = <<1, 1>>
    /\ call.ret = "SUPERSET"

(***************************************************************************)
(* C14: for every pair of canonical ranges (begin <= end on both),          *)
(* compare_timecontext returns NONOVERLAP if and only if                    *)
(* old.end < cur.begin or cur.end < old.begin, and returns OVERLAP exactly  *)
(* when the two ranges share a point and neither contains the other.        *)
(***************************************************************************)
\* the ranges a and b have a timestamp in common
SharePoint(a, b) ==
    \E t \in Timestamps : a[1] <= t /\ t <= a[2] /\ b[1] <= t /\ t <= b[2]

C14_NonoverlapAndOverlap ==
    (Compared /\ call.args[1] \in Ranges /\ call.args[2] \in Ranges) =>
        LET cur == call.args[1]
            old == call.args[2]
        IN  /\ (call.ret = "NONOVERLAP") <=> (old[2] < cur[1] \/ cur[2] < old[1])
            /\ (call.ret = "OVERLAP")
                  <=> (SharePoint(cur, old) /\ ~Within(cur, old) /\ ~Within(old, cur))

\* C14 witness: two canonical ranges that share exactly one timestamp
C14_Witness ==
    /\ Compared
    /\ call.args[1] = <<0, 1>>
    /\ call.args[2] = <<1, 2>>
    /\ call.ret = "OVERLAP"

(***************************************************************************)
(* C15: canonicalize_context accepts a range only if it is a pair of        *)
(* timestamps with begin <= end, and then returns the same bounds; a        *)
(* non-pair, a bound that is no timestamp, or begin > end makes it fail     *)
(* with IbisError, and with it execute, before any hook is called.  So      *)
(* every range the evaluator receives from the top-level execute has        *)
(* begin <= end.                                                            *)
(***************************************************************************)
\* a pair of timestamps, begin <= end
IsCanonical(tc) ==
    /\ Len(tc) = 2
    /\ tc[1] \in Timestamps
    /\ tc[2] \in Timestamps
    /\ tc[1] <= tc[2]

HeldNonLeafCalls ==
    {c \in CallEvents :
        /\ log[c].timecontext # None
        /\ Ops[log[c].op].kind \notin {"TableColumn", "TableNode"}
        /\ log[c].op \in DOMAIN log[c].scope}

C16_RangeForcesMissOffLeaves ==
    \A c \in HeldNonLeafCalls :
        /\ c + 1 \in Events =>
              /\ log[c + 1].vid = c
              /\ log[c + 1].ev \in {"compute_time_context", "execute_literal"}
        /\ \A r \in Events : ReturnOf(c, r) =>
              /\ log[r].how \in {"computed", "literal"}
              /\ log[r].how = "computed" => ComputedBefore(c, r)
              /\ log[r].scope[log[c].op].value # log[c].scope[log[c].op].value

\* C16 witness: node 4, bound by params, was recomputed under a range
C16_Witness ==
    \E c \in HeldNonLeafCalls : \E r \in Events :
        /\ log[c].op \in DOMAIN params
        /\ Ops[log[c].op].kind = "Other"
        /\ ReturnOf(c, r)
        /\ log[r].how = "computed"

(***************************************************************************)
(* C17: a lookup with no range is a plain identity lookup.  It returns the  *)
(* stored value of every node present in the scope, for every node kind     *)
(* and whatever range (or None) the entry is stored under, and it returns   *)
(* nothing (None) only when the node is absent.                             *)
(***************************************************************************)
\* a call of get_scope without a time context has returned
LookedUpWithoutRange ==
    /\ call.fn = "get_scope"
    /\ call.done
    /\ call.args[3] = None

C17_NoRangeIdentityLookup ==
    LookedUpWithoutRange =>
        LET sc == call.args[1]
            op == call.args[2]
        IN  /\ op \in DOMAIN sc => call.ret = sc[op].value
            /\ call.ret = NoneVal <=> op \notin DOMAIN sc

\* C17 witness: node 4, no leaf, stored under a range, looked up without one
C17_Witness ==
    /\ LookedUpWithoutRange
    /\ call.args[2] \in DOMAIN call.args[1]
    /\ Ops[call.args[2]].kind = "Other"
    /\ call.args[1][call.args[2]].timecontext = CachedRange
    /\ call.ret = Val("seed", call.args[2])

(***************************************************************************)
(* C18: the merge of scopes is a right-biased union.  A node present in     *)
(* both arguments gets the whole entry (value and range) of the later one,  *)
(* with no comparison of the ranges; a node present in one argument keeps   *)
(* its entry.  In the evaluator the order is: the incoming scope, then the  *)
(* result of pre_execute, then the scopes of the children from left to      *)
(* right.                                                                   *)
(***************************************************************************)
\* what pre_execute returned to the call f
PreExecuted(f) ==
    log[CHOOSE i \in HookCalls("pre_execute") : log[i].vid = f.vid].contrib

\* the children of the call f whose scope holds the key k
Holders(f, k) == {j \in DOMAIN f.scopes : k \in DOMAIN f.scopes[j]}

\* the entry of the key k in the last of the mappings that hold it
LastEntry(f, k) ==
    IF Holders(f, k) # {}
    THEN f.scopes[CHOOSE j \in Holders(f, k) : \A h \in Holders(f, k) : h <= j][k]
    ELSE IF k \in DOMAIN PreExecuted(f) THEN PreExecuted(f)[k]
    ELSE f.scope[k]

C18_MergeIsRightBiased ==
    \A d \in DOMAIN stack :
        LET f == stack[d]
        IN  /\ f.pc = "args" =>
                  /\ DOMAIN f.new_scope = DOMAIN f.scope \cup DOMAIN PreExecuted(f)
                  /\ \A k \in DOMAIN f.new_scope :
                        f.new_scope[k] = IF k \in DOMAIN PreExecuted(f)
                                         THEN PreExecuted(f)[k]
                                         ELSE f.scope[k]
            /\ f.pc = "post" =>
                  /\ DOMAIN f.new_scope =
                        DOMAIN f.scope \cup DOMAIN PreExecuted(f)
                            \cup UNION {DOMAIN f.scopes[j] : j \in DOMAIN f.scopes}
                  /\ \A k \in DOMAIN f.new_scope : f.new_scope[k] = LastEntry(f, k)

\* C18 witness: the entry a child returned replaced the incoming entry of the
\* same node, stored under another range
C18_Witness ==
    /\ stack # <<>>
    /\ Top.pc = "post"
    /\ \E k \in DOMAIN Top.scope :
          /\ Holders(Top, k) # {}
          /\ Top.new_scope[k].timecontext # Top.scope[k].timecontext
          /\ Top.new_scope[k].value # Top.scope[k].value

(***************************************************************************)
(* C19: execute_and_reset returns, for a table result, a table with a       *)
(* dense 0-based index whose columns are exactly the declared schema        *)
(* columns of the expression, in declared order; for a column result, the   *)
(* same cells under a dense 0-based index; for a scalar result, the very    *)
(* value execute returned.                                                  *)
(***************************************************************************)
\* a call of execute_and_reset has returned a value (no exception)
ResetDone ==
    /\ call.fn = "execute_and_reset"
    /\ call.done
    /\ call.ret.type \in {"DataFrame", "Series", "scalar"}

\* index is 0, 1, ... over n rows
IsDense(index, n) == DOMAIN index = 1 .. n /\ \A i \in 1 .. n : index[i] = i - 1

C19_ExecuteAndReset ==
    ResetDone =>
        LET given == call.args[1]
            names == call.args[2]
            ret == call.ret
        IN  /\ given.type = "DataFrame" =>
                  /\ ret.type = "DataFrame"
                  /\ IsDense(ret.index, Len(given.index))
                  /\ ret.columns = names
                  /\ DOMAIN ret.data = Names(names)
                  /\ \A c \in Names(names) : \A i \in DOMAIN given.index :
                        ret.data[c][i] = IF c \in Names(given.columns)
                                         THEN Cell(c, i)
                                         ELSE LabelCell(given.index[i])
            /\ given.type = "Series" =>
                  /\ ret.type = "Series"
                  /\ IsDense(ret.index, Len(given.index))
                  /\ ret.data = given.data
            /\ given.type = "scalar" => ret = given

\* C19 witness: a table grouped by "a", rows labelled 2 and 0, columns
\* declared as a, b
C19_Witness ==
    /\ ResetDone
    /\ call.args[1].type = "DataFrame"
    /\ call.args[1].index = <<2, 0>>
    /\ call.args[1].index_name = "a"
    /\ call.args[1].columns = <<"b">>
    /\ call.args[2] = <<"a", "b">>
    /\ call.ret.columns = <<"a", "b">>

(***************************************************************************)
(* C20: CSV column pruning in the pre_execute hook of a selection.  For     *)
(* every physical table of the selection that is not in scope yet, the      *)
(* scope the hook returns holds the table read with exactly the selected    *)
(* columns when every selected column is in the header of the file, and     *)
(* with all the header columns when a selected column is missing in the     *)
(* header or nothing is selected; tables already in scope are not read.     *)
(***************************************************************************)
\* a call of csv_pre_execute_selection has returned
CsvPreExecuted == call.fn = "csv_pre_execute_selection" /\ call.done

C20_CsvColumnPruning ==
    CsvPreExecuted =>
        LET tables == call.args[1]
            sc == call.args[2]
            selections == call.args[3]
            selected == {selections[i] : i \in DOMAIN selections}
        IN  /\ DOMAIN call.ret = tables \ DOMAIN sc
            /\ \A t \in DOMAIN call.ret :
                  LET header == {Header[t][i] : i \in DOMAIN Header[t]}
                      read == call.ret[t].value
                  IN  /\ read.src = "read_csv"
                      /\ read.table = t
                      /\ call.ret[t].timecontext = call.args[4]
                      /\ {read.columns[i] : i \in DOMAIN read.columns} =
                            IF selected # {} /\ selected \subseteq header
                            THEN selected
                            ELSE header

\* C20 witness: a and b are selected; the file t, which has them, is read
\* pruned, and the file u, which has no b, is read whole
C20_Witness ==
    /\ CsvPreExecuted
    /\ call.args[3] = <<"a", "b">>
    /\ DOMAIN call.ret = {"t", "u"}
    /\ call.ret["t"].value.columns = <<"a", "b">>
    /\ call.ret["u"].value.columns = <<"a", "d">>

(***************************************************************************)
(* C21: filtering a table by a time context (begin, end) keeps exactly the  *)
(* rows whose 'time' value t satisfies begin <= t <= end, both bounds       *)
(* inclusive, in their original order; with no time context the table is    *)
(* returned unchanged; with a time context but no 'time' column the         *)
(* operation fails with a translation error.                                *)
(***************************************************************************)
\* a call of filter_by_time_context is over
Filtered == call.fn = "filter_by_time_context" /\ call.done

C21_FilterKeepsInclusiveRange ==
    Filtered =>
        LET df == call.args[1]
            tc == call.args[2]
        IN  IF tc = None THEN call.ret = df
            ELSE IF ~df.has_time THEN call.ret = Raised("TranslationError")
            ELSE /\ call.ret.type = "SparkDataFrame"
                 /\ call.ret.rows =
                       SelectSeq(df.rows, LAMBDA t : tc[1] <= t /\ t <= tc[2])

(***************************************************************************)
(* C22: the value handed to execute_node for each sub-expression input is   *)
(* the value of that input's entry in the merged scope, looked up without   *)
(* a time context: whatever range the entry is stored under, and whatever   *)
(* range was assigned to the input.  An input that is no expression is      *)
(* handed over as it is.                                                    *)
(***************************************************************************)
\* execute_node has just been called by the innermost call
JustExecuted ==
    /\ status = "running"
    /\ stack # <<>>
    /\ Top.pc = "post"
    /\ log # <<>>
    /\ log[Len(log)].ev = "execute_node"

C22_DataIsRangelessLookup ==
    JustExecuted =>
        LET args == ComputableArgs(Top.op)
            data == log[Len(log)].data
        IN  /\ DOMAIN data = DOMAIN args
            /\ \A k \in DOMAIN args :
                  IF HasOp(args[k])
                  THEN /\ args[k].id \in DOMAIN Top.new_scope
                       /\ data[k] = Top.new_scope[args[k].id].value
                  ELSE data[k] = Val("raw", args[k].id)

\* execute_node is called under a time context with an input whose assigned
\* range is not the parent's and under which a ranged lookup finds nothing
C22_Witness ==
    /\ JustExecuted
    /\ Top.timecontext # None
    /\ \E k \in DOMAIN ComputableArgs(Top.op) :
          /\ HasOp(ComputableArgs(Top.op)[k])
          /\ Top.arg_timecontexts[k] # Top.timecontext
          /\ get_scope(Top.new_scope, ComputableArgs(Top.op)[k].id,
                       Top.arg_timecontexts[k]) = NoneVal
          /\ log[Len(log)].data[k] # NoneVal

\* C22 as stated: the lookup is made under the input's own assigned range
C22_DataIsLookupUnderChildRange ==
    JustExecuted =>
        \A k \in DOMAIN ComputableArgs(Top.op) :
            HasOp(ComputableArgs(Top.op)[k]) =>
                log[Len(log)].data[k] =
                    get_scope(Top.new_scope, ComputableArgs(Top.op)[k].id,
                              Top.arg_timecontexts[k])

(***************************************************************************)
(* C23: the default compute_time_context returns exactly one range per      *)
(* computable input of the node, each equal to the parent's range, so that  *)
(* its result never fails the count check of the evaluator.                 *)
(***************************************************************************)
\* a call of a default compute_time_context is over
DefaultComputed ==
    /\ call.fn \in {"compute_time_context_default",
                    "pyspark_compute_time_context_default"}
    /\ call.done

C23_DefaultOneRangePerComputableInput ==
    DefaultComputed =>
        /\ Len(call.ret) = Len(ComputableArgs(call.args[1]))
        /\ \A i \in DOMAIN call.ret : call.ret[i] = call.args[2]

(***************************************************************************)
(* C24: the aggregation context is chosen once at the top of an evaluation  *)
(* (Summarize, the whole-column strategy, when the caller gives none) and   *)
(* every pre_execute, execute_literal, execute_node and post_execute call   *)
(* made during that evaluation, at every depth, receives that same value.   *)
(***************************************************************************)
\* the aggregation context execute_with_scope settles on
ChosenAggContext ==
    IF raw_aggcontext = "None" THEN "Summarize" ELSE raw_aggcontext

\* the entries of the log that are calls of a hook given an aggcontext
AggContextHookCalls ==
    {i \in Events : log[i].ev \in {"pre_execute", "execute_literal",
                                   "execute_node", "post_execute"}}

C24_AggContextCarriedUnchanged ==
    \A i \in AggContextHookCalls : log[i].aggcontext = ChosenAggContext

\* an evaluation the caller gave a strategy is over, and each of the four
\* hooks was called in calls below the root
C24_Witness ==
    /\ status = "done"
    /\ raw_aggcontext = "Window"
    /\ \A hook \in {"pre_execute", "execute_literal", "execute_node", "post_execute"} :
          \E i \in AggContextHookCalls : log[i].ev = hook /\ log[i].par # 0

(***************************************************************************)
(* C25: no stale input.  When a sub-expression input of a node was          *)
(* recomputed during the evaluation because its entry in the incoming       *)
(* scope failed the memo-validity rule, the value handed to the node's      *)
(* execute_node for that input is the freshly computed one, never the old   *)
(* entry of the incoming scope, whatever the order of the inputs and        *)
(* whether or not a later sibling is a memo hit that returns the whole      *)
(* incoming scope.                                                          *)
(***************************************************************************)
\* the call c was given a scope that holds its node, and it recomputed the
\* node all the same: it returned, at entry r, the entry it made
Recomputed(c, r) ==
    /\ ReturnOf(c, r)
    /\ log[r].how = "computed"
    /\ log[c].op \in DOMAIN log[c].scope

C25_NoStaleInput ==
    \A e \in HookCalls("execute_node") :
        LET args == ComputableArgs(log[e].op)
        IN  \A k \in DOMAIN args : \A c \in Children(log[e].vid) : \A r \in Events :
                (HasOp(args[k]) /\ log[c].op = args[k].id /\ Recomputed(c, r))
                => /\ log[e].data[k] = log[r].scope[log[c].op].value
                   /\ log[e].data[k] # log[c].scope[log[c].op].value

(***************************************************************************)
(* C26: every successful return of execute_until_in_scope for a node        *)
(* yields a scope that contains an entry for that node, on the literal      *)
(* path, the memo hit, the pre_execute short circuit and the computed path  *)
(* alike, so that the extraction of the root's value in execute_with_scope  *)
(* never fails on a missing key; on the computed path the entry's range is  *)
(* the range requested for the node.                                        *)
(***************************************************************************)
\* the returns of execute_until_in_scope
Returns == {r \in Events : log[r].ev = "return"}

C26_ReturnedScopeHoldsNode ==
    /\ \A r \in Returns :
          /\ log[r].how \in {"literal", "hit", "short_circuit", "computed"}
          /\ log[r].op \in DOMAIN log[r].scope
          /\ log[r].how = "computed" =>
                log[r].scope[log[r].op].timecontext = log[log[r].vid].timecontext
    /\ error.type # "KeyError"
    /\ status = "done" =>
          \E r \in Returns :
              /\ r = Len(log)
              /\ log[r].par = 0
              /\ log[r].op = expr
              /\ result = log[r].scope[expr].value

\* an evaluation under a range is over in which a call returned on each of
\* the four paths
C26_Witness ==
    /\ status = "done"
    /\ \A how \in {"literal", "hit", "short_circuit", "computed"} :
          \E r \in Returns : log[r].how = how
    /\ \E r \in Returns :
          /\ log[r].how = "computed"
          /\ log[log[r].vid].timecontext # None
          /\ log[log[r].vid].timecontext = timecontext

(***************************************************************************)
(* C27: the evaluator never changes the scope or the params the caller      *)
(* passes in.  After execute returns or fails the seed scope holds the      *)
(* entries it held before; the scope passed to a call of                    *)
(* execute_until_in_scope holds the same entries during and after the call  *)
(* as before it; the entries made during the evaluation live only in newly  *)
(* built scopes.                                                            *)
(***************************************************************************)
\* the active call at depth d still holds the scope it was called with
ScopeAsPassed(d) == stack[d].scope = log[stack[d].vid].scope

\* the scope the call at depth d passed to the calls for its arguments is
\* still what it passed
ArgScopeAsPassed(d) ==
    stack[d].pc = "args" =>
        /\ \A k \in Children(stack[d].vid) : log[k].scope = stack[d].new_scope
        /\ d < Len(stack) => stack[d + 1].scope = stack[d].new_scope

C27_CallerScopeNotMutated ==
    /\ (status # "idle" /\ error.at # "canonicalize_context") => scope = CallerScope
    /\ log # <<>> =>
          /\ log[1].ev = "pre_execute"
          /\ log[1].how # "raise" => log[1].scope = CallerScope
    /\ \A c \in CallEvents : log[c].par = 0 =>
          log[c].scope = merge(CallerScope, log[1].contrib)
    /\ \A d \in DOMAIN stack : ScopeAsPassed(d) /\ ArgScopeAsPassed(d)
    /\ \A r \in Returns : log[r].how = "hit" => log[r].scope = log[log[r].vid].scope

\* an evaluation with a seed scope is over, during which a call below the
\* root was given entries by its pre_execute and made an entry of its own
C27_Witness ==
    /\ status = "done"
    /\ seed_scope # EmptyScope
    /\ \E i \in HookCalls("pre_execute") : \E r \in Returns :
          /\ log[i].par # 0
          /\ log[i].contrib # EmptyScope
          /\ log[r].vid = log[i].vid
          /\ log[r].how = "computed"

(***************************************************************************)
(* C28: termination.  For every finite acyclic expression tree and hooks    *)
(* that each return, a top-level evaluation eventually finishes, with the   *)
(* root's value or with an error, after finitely many hook calls: the       *)
(* recursion only descends into the inputs of the current node and never    *)
(* comes back to an ancestor, and the calls and hook calls of an            *)
(* evaluation are bounded by the size of the tree.                          *)
(***************************************************************************)
RECURSIVE Paths(_)
\* the paths from op down into its tree: one call at most for each
Paths(op) ==
    LET RECURSIVE Sum(_)
        Sum(S) == IF S = {} THEN 0
                  ELSE LET c == CHOOSE x \in S : TRUE
                       IN  Paths(c) + Sum(S \ {c})
    IN  1 + Sum(ExprInputs(op))

\* every active call is for an input of the call above it, and no node is
\* on the stack twice
DescendsOnly ==
    /\ \A d \in DOMAIN stack :
          IF d = 1 THEN stack[d].op = expr
          ELSE stack[d].op \in ExprInputs(stack[d - 1].op)
    /\ \A d, e \in DOMAIN stack : stack[d].op = stack[e].op => d = e

\* the hook calls made so far
AllHookCalls == {i \in Events : log[i].ev \notin {"call", "return"}}

\* at most one call for each path of the tree, and four hook calls for each
\* call besides the pre_execute of execute_with_scope
BoundedWork ==
    status # "idle" =>
        /\ Cardinality(CallEvents) <= Paths(expr)
        /\ Cardinality(AllHookCalls) <= 4 * Paths(expr) + 1

\* execute has returned or raised
Finished == status \in {"done", "error"}

C28_Terminates ==
    /\ [](DescendsOnly /\ BoundedWork)
    /\ <>Finished

\* an evaluation that went three calls deep has returned the root's value
C28_Witness ==
    /\ status = "done"
    /\ result.src = "post_execute"
    /\ \E c, k \in CallEvents :
          /\ log[c].par # 0
          /\ log[k].par = c

====
